---- MODULE Spec2Model ----
(***************************************************************************)
(* A model of the TrueNAS application client of this repository: the       *)
(* TrueNASClient class (connect / authenticate / callMethod / getAppStatus *)
(* / waitForJob / stopApp / startApp / restartApp / disconnect), in its    *)
(* current and its legacy variant, driven by the CI action (run), by the   *)
(* command line tool (commandLineTest) or by a program that calls the      *)
(* public methods directly ("api"); the server and the network are the     *)
(* environment.                                                            *)
(*                                                                         *)
(* JavaScript runs one task at a time: an event handler and the promise    *)
(* continuations it wakes run to the next await before another event is    *)
(* handled.  The model keeps the chain of awaiting async functions in      *)
(* `stack`.  Every function is a set of steps, each a function from the    *)
(* client's state to its next state; an action of the model is one event   *)
(* (the program starts, a call of the api program, a socket event, a       *)
(* message, a timer) followed by all the steps that run until every        *)
(* function is suspended again (Run).                                      *)
(***************************************************************************)
EXTENDS Integers, Sequences, FiniteSets, TLC

\* ------------------------------------------------------------------ bounds
\* connect() calls one client object lives through (channels it creates)
MaxChannels == 2
\* public methods the api caller invokes on one client object
MaxCalls == 2
\* job ids the server hands out: 1..MaxJobId
MaxJobId == 2
\* a timeout given to waitForJob that is no multiple of the poll interval
ShortTimeout == 3000

\* ------------------------------------------------------- program constants
\* waitForJob(jobId, timeout = 30000)
DefaultTimeout == 30000
\* setTimeout(resolve, 2000) between two polls
PollInterval == 2000
\* if (apiKey.length < 10)
MinKeyLength == 10

\* ------------------------------------------------------------------ values
\* A JavaScript value: null, a string, a number, a boolean, an array of jobs
\* or an application descriptor (an object with a state field).
Null == [s |-> "null", n |-> 0, jobs |-> <<>>, state |-> "undefined"]
Str(x) == [s |-> x, n |-> 0, jobs |-> <<>>, state |-> "undefined"]
Num(k) == [s |-> "number", n |-> k, jobs |-> <<>>, state |-> "undefined"]
Bool(b) == [s |-> IF b THEN "true" ELSE "false", n |-> 0, jobs |-> <<>>, state |-> "undefined"]
Arr(js) == [s |-> "array", n |-> 0, jobs |-> js, state |-> "undefined"]
App(st) == [s |-> "object", n |-> 0, jobs |-> <<>>, state |-> st]

\* The completion of the last call that finished, waiting to be taken by
\* the function that awaits it.
NoRet == [kind |-> "none", val |-> Null]
Value(v) == [kind |-> "value", val |-> v]
Throw(msg) == [kind |-> "throw", val |-> Str(msg)]

Variants == {"current", "legacy"}
Callers == {"run", "commandLineTest", "api"}
\* action / command strings given to the wrappers
ActionInputs == {"status", "stop", "start", "restart", "Restart", "bogus"}
\* application names: a name, the empty string, a blank string
AppNames == {"app", "", " "}
\* an address: the scheme before "://" ("" when there is none) and the rest
Url(scheme, rest) == [scheme |-> scheme, rest |-> rest]
Urls == {Url("https", "nas"), Url("", "nas")}
\* an API key of n characters
Key(n) == [i \in 1 .. n |-> "k"]
ApiKeys == {Key(0), Key(MinKeyLength - 1), Key(MinKeyLength)}
AppStates == {"RUNNING", "STOPPED"}
JobIds == 1 .. MaxJobId
JobStates == {"RUNNING", "WAITING", "SUCCESS", "FAILED"}
Operational == {"app.get_instance", "app.stop", "app.start", "core.get_jobs"}
AuthMethods == {"auth.login_with_api_key", "auth.login"}

\* ---------------------------------------------------------- error messages
MsgNameRequired == "App name is required and must be a string"
MsgNameEmpty == "App name cannot be empty"
MsgNotFound == "App not found. Please check the app name in TrueNAS"
MsgPermission == "Permission denied. Please ensure your API key has APPS_WRITE permissions"
MsgConnectionFailed == "WebSocket connection failed"

\* texts the server puts in error.reason / error.message
ServerTexts == {"not found", "permission", "already stopped", "already running", "other"}
AuthReasons == {"invalid", "expired", "other"}
Shapes == {"reason", "message"}

\* `Method call failed: ${response.error.message}`
MethodCallFailed(text) == "Method call failed: " \o text
\* `Authentication failed: ${errorReason}`
AuthenticationFailed(text) == "Authentication failed: " \o text

\* error.message.includes(needle), for the messages above: a server text
\* contains itself and nothing else; the client's own messages contain
\* what is written in them.
Includes(msg, needle) ==
    \/ msg = needle
    \/ \E t \in ServerTexts \cup AuthReasons :
          /\ msg \in {MethodCallFailed(t), AuthenticationFailed(t)}
          /\ t = needle
    \/ msg = MsgNotFound /\ needle = "not found"
    \/ msg = MsgPermission /\ needle = "permission"

\* response.error.<field>: the text when the server used that field,
\* undefined otherwise
ErrorField(error, field) == IF error.shape = field THEN error.text ELSE "undefined"

\* String.prototype.toLowerCase on the action strings
toLowerCase(s) == IF s = "Restart" THEN "restart" ELSE s

\* String.prototype.trim()
trim(s) == IF s = " " THEN "" ELSE s
\* String.prototype.trim().length === 0
IsBlank(s) == trim(s) = ""
\* !appName
IsFalsyName(s) == s = ""

\* url.match(/^https?:\/\/.+/)
IsHttpUrl(url) == url.scheme \in {"http", "https"} /\ url.rest # ""
\* url.replace('http', 'ws') + '/websocket'
WsUrl(url) ==
    [url EXCEPT !.scheme = CASE @ = "http" -> "ws"
                             [] @ = "https" -> "wss"
                             [] OTHER -> @]
\* new WebSocket(address) throws a SyntaxError for an address that is not
\* a ws: or wss: URL
Opens(address) == address.scheme \in {"ws", "wss"} /\ address.rest # ""

\* ---------------------------------------------------------------- messages
NoError == [shape |-> "none", text |-> ""]
\* {msg: 'connected'} and any other answer to the connect message
Connected == [id |-> 0, msg |-> "connected", hasError |-> FALSE, error |-> NoError, result |-> Null]
Failed == [id |-> 0, msg |-> "failed", hasError |-> FALSE, error |-> NoError, result |-> Null]
\* {id, result}
Result(i, v) == [id |-> i, msg |-> "result", hasError |-> FALSE, error |-> NoError, result |-> v]
\* {id, error: {reason}} or {id, error: {message}}
Error(i, shape, text) ==
    [id |-> i, msg |-> "result", hasError |-> TRUE,
     error |-> [shape |-> shape, text |-> text], result |-> Null]
\* a message that answers no request: one without an id
Ping == [id |-> 0, msg |-> "ping", hasError |-> FALSE, error |-> NoError, result |-> Null]

VARIABLES
    variant,      \* which TrueNASClient implementation is loaded
    caller,       \* who drives the client: run, commandLineTest or api
    input,        \* the inputs: [action, appName, url, apiKey, disableSslVerify]
    appExists,    \* server: whether the named application exists
    stack,        \* the chain of awaiting async functions, innermost last
    ret,          \* completion handed to the function on top of the stack
    messageId,    \* this.messageId
    ws,           \* this.ws: 0 is null, else the index of its channel
    chan,         \* every channel (WebSocket) the client has created
    outstanding,  \* server: requests received and not yet answered
    pending,      \* ids of the calls of callMethod whose promise is unsettled
    log,          \* every message the client tried to send, in order
    jobId,        \* waitForJob: its jobId argument
    timeout,      \* waitForJob: its timeout argument
    elapsed,      \* waitForJob: Date.now() - startTime
    opJobId,      \* stopApp / startApp: const jobId
    calls,        \* api: public methods invoked so far
    last,         \* the caller's view of the last call it awaited
    out,          \* what run / commandLineTest reported
    lost,         \* history: id of a response that reached no listener
    settledBy,    \* history: <<call id, response id>> of the last settled call
    wj,           \* history: what the latest waitForJob observed
    seen,         \* history: the answer to app.get_instance, or the error in
                  \* answer to app.stop / app.start, that just arrived
    rs            \* history: the latest restartApp

vars == <<variant, caller, input, appExists, stack, ret, messageId, ws, chan,
          outstanding, pending, log, jobId, timeout, elapsed, opJobId, calls, last, out,
          lost, settledBy, wj, seen, rs>>

\* the state the client's steps work on
cur == [stack |-> stack, ret |-> ret, messageId |-> messageId, ws |-> ws,
        chan |-> chan, outstanding |-> outstanding, pending |-> pending,
        log |-> log, jobId |-> jobId,
        timeout |-> timeout, elapsed |-> elapsed, opJobId |-> opJobId,
        calls |-> calls, last |-> last, out |-> out, lost |-> lost,
        settledBy |-> settledBy, wj |-> wj, seen |-> seen, rs |-> rs]

Becomes(S) ==
    /\ stack' = S.stack /\ ret' = S.ret /\ messageId' = S.messageId /\ ws' = S.ws
    /\ chan' = S.chan /\ outstanding' = S.outstanding /\ pending' = S.pending
    /\ log' = S.log
    /\ jobId' = S.jobId /\ timeout' = S.timeout /\ elapsed' = S.elapsed
    /\ opJobId' = S.opJobId /\ calls' = S.calls /\ last' = S.last /\ out' = S.out
    /\ lost' = S.lost /\ settledBy' = S.settledBy /\ wj' = S.wj /\ seen' = S.seen
    /\ rs' = S.rs
    /\ UNCHANGED <<variant, caller, input, appExists>>

\* ------------------------------------------------------------------- stack
Frame(fn, pc) == [fn |-> fn, pc |-> pc]
Top(S) == S.stack[Len(S.stack)]
At(S, fn, pc) == S.stack # <<>> /\ Top(S).fn = fn /\ Top(S).pc = pc
\* the function on top continues at pc
Goto(S, pc) == [S EXCEPT !.stack[Len(S.stack)].pc = pc]
\* await fn(...): the function on top continues at pc when fn has settled
Await(S, pc, fn) ==
    [S EXCEPT !.stack = Append(Goto(S, pc).stack, Frame(fn, "start")), !.ret = NoRet]
\* the function on top returns or throws
Return(S, completion) ==
    [S EXCEPT !.stack = SubSeq(@, 1, Len(@) - 1), !.ret = completion]
\* The client is suspended: the function on top awaits a promise that only
\* an event can settle (ret is empty), or the program is through.
WaitPcs == {"pending", "await_get_instance", "await_get_jobs", "await_op",
            "sleep", "sleep10", "sleep5_stop", "sleep5_start", "idle", "done"}
Suspended(S) == S.ret.kind = "none" /\ Top(S).pc \in WaitPcs
Quiet == Suspended(cur)

NoWait == [active |-> FALSE, from |-> 0, polls |-> 0, polledAt |-> 0,
           spaced |-> TRUE, sawSuccess |-> FALSE, sawFailed |-> FALSE,
           sawError |-> FALSE, lateSuccess |-> FALSE, expired |-> FALSE,
           obs |-> "none", result |-> "none"]
NoSeen == [id |-> 0, status |-> Null, opId |-> 0, opError |-> ""]
NoRestart == [phase |-> "none", stop |-> "none", recheck |-> NoRet,
              error |-> NoRet, result |-> NoRet, mark |-> 0,
              answer |-> NoSeen]
NoOut == [appStatus |-> "unset", success |-> "unset", failed |-> FALSE,
          exit |-> "none", disconnects |-> 0]
NoCall == [fn |-> "none", ret |-> NoRet, answer |-> NoSeen, wait |-> "none"]

Init ==
    /\ variant \in Variants
    /\ caller \in Callers
    /\ input \in [action : ActionInputs, appName : AppNames,
                  url : Urls, apiKey : ApiKeys, disableSslVerify : {"", "true"}]
    /\ caller = "api" => /\ input.action = "status"
                         /\ IsHttpUrl(input.url)
                         /\ Len(input.apiKey) >= MinKeyLength
                         /\ input.disableSslVerify = ""
    /\ appExists \in BOOLEAN
    /\ stack = << Frame(caller, IF caller = "api" THEN "idle" ELSE "start") >>
    /\ ret = NoRet
    /\ messageId = 0
    /\ ws = 0
    /\ chan = <<>>
    /\ outstanding = {}
    /\ pending = {}
    /\ log = <<>>
    /\ jobId = 0
    /\ timeout = 0
    /\ elapsed = 0
    /\ opJobId = Null
    /\ calls = 0
    /\ last = NoCall
    /\ out = NoOut
    /\ lost = 0
    /\ settledBy = <<0, 0>>
    /\ wj = NoWait
    /\ seen = NoSeen
    /\ rs = NoRestart

\* ------------------------------------------------------------- constructor
\* new TrueNASClient(url, apiKey, options): the message of the error the
\* constructor throws, "" when it throws none; the legacy constructor
\* checks nothing
ConstructorError(url, apiKey) ==
    IF variant = "legacy" THEN ""
    ELSE IF ~IsHttpUrl(url) THEN "TrueNAS URL must be a valid HTTP/HTTPS URL"
    ELSE IF apiKey = <<>> THEN "API key is required and must be a string"
    ELSE IF Len(apiKey) < MinKeyLength THEN "API key appears to be too short"
    ELSE ""

\* core.getInput('disable-ssl-verify') === 'true' in run(); the flag
\* --no-ssl-verify of the command line tool
disableSSLVerify == input.disableSslVerify = "true"
\* the options the caller gives the constructor: the wrappers pass
\* { rejectUnauthorized }, a program that uses the client directly none
ClientOptions ==
    IF caller = "api" THEN [k \in {} |-> TRUE]
    ELSE [rejectUnauthorized |-> ~disableSSLVerify]
\* the rejectUnauthorized that connect() gives https.Agent, from this.options
\* of the constructor: the current client reads options.noSslVerify, the
\* legacy client options.rejectUnauthorized
rejectUnauthorized(options) ==
    IF variant = "current"
    THEN ~("noSslVerify" \in DOMAIN options /\ options.noSslVerify = TRUE)
    ELSE IF "rejectUnauthorized" \in DOMAIN options THEN options.rejectUnauthorized
    ELSE TRUE

\* ----------------------------------------------------------------- channel
\* verify: the server's certificate is validated when the socket is opened
NewChannel == [state |-> "connecting", listener |-> "none", lid |-> 0,
               connect |-> "pending", first |-> "none", connected |-> FALSE,
               authOk |-> FALSE, authErr |-> FALSE, verify |-> TRUE]
\* a log entry; ch is 0 when send() threw and nothing went out
Entry(c, i, method) == [ch |-> c, id |-> i, method |-> method]
\* send() throws on a null this.ws and on a socket that is not open
CanSend(S) == S.ws # 0 /\ S.chan[S.ws].state = "open"
SendError(S) ==
    IF S.ws = 0 THEN "Cannot read properties of null (reading 'send')"
    ELSE "WebSocket is not open"

\* this.ws.send(JSON.stringify(message)); this.ws.once('message', listener)
Send(S, i, method, arg, listener) ==
    [S EXCEPT !.log = Append(@, Entry(S.ws, i, method)),
              !.outstanding = @ \cup {[ch |-> S.ws, id |-> i, method |-> method, arg |-> arg]},
              !.chan[S.ws].listener = listener,
              !.chan[S.ws].lid = i]
\* send() threw: nothing went out, no listener is registered
Unsent(S, i, method) == [S EXCEPT !.log = Append(@, Entry(0, i, method))]

\* ++this.messageId
NextMessageIdReused(m) == IF m = 0 THEN 1 ELSE m
NextMessageId(m) == m + 1

\* response.id === messageId
IdMatchesAny(response, i) == TRUE
IdMatches(response, i) == response.id = i

\* callMethod(method, params): allocate the id, send the request and arm a
\* one-shot listener for the next message; a send() that throws rejects
\* the promise at once.
callMethodUnawaited(S, method, arg) ==
    LET id == NextMessageId(S.messageId)
        T == [S EXCEPT !.messageId = id]
    IN IF CanSend(S)
       THEN [Send(T, id, method, arg, "callMethod")
                EXCEPT !.ret = Value(Null), !.pending = @ \cup {id}]
       ELSE [Unsent(T, id, method) EXCEPT !.ret = Throw(SendError(S))]
callMethod(S, method, arg) ==
    LET id == NextMessageId(S.messageId)
        T == [S EXCEPT !.messageId = id]
    IN IF CanSend(S)
       THEN [Send(T, id, method, arg, "callMethod")
                EXCEPT !.ret = NoRet, !.pending = @ \cup {id}]
       ELSE [Unsent(T, id, method) EXCEPT !.ret = Throw(SendError(S))]

\* connect(): this.ws = new WebSocket(...); the promise stays pending until
\* the handshake resolves or rejects it
connect(S) ==
    IF ~Opens(WsUrl(input.url)) THEN Return(S, Throw("Invalid URL"))
    ELSE [Goto(S, "pending")
             EXCEPT !.chan = Append(@, [NewChannel EXCEPT
                                           !.verify = rejectUnauthorized(ClientOptions)]),
                                    !.ws = Len(S.chan) + 1]

\* the connect() promise of channel c is resolved or rejected; only the
\* first settlement counts
SettleConnect(S, c, how, completion) ==
    IF S.chan[c].connect = "pending"
    THEN [Return(S, completion) EXCEPT !.chan[c].connect = how]
    ELSE S

\* authenticate(): send the connect message, listen for the next message
authenticate(S, c) ==
    IF CanSend(S) THEN Send(S, 0, "connect", <<>>, "authenticate")
    ELSE SettleConnect(Unsent(S, 0, "connect"), c, "rejected", Throw(SendError(S)))

\* authenticateWithAPI() / tryAlternativeAuth(): send the login call, listen
\* for the next message
Login(S, c, method, listener) ==
    LET id == NextMessageId(S.messageId)
        T == [S EXCEPT !.messageId = id]
    IN IF CanSend(S) THEN Send(T, id, method, <<>>, listener)
       ELSE SettleConnect(Unsent(T, id, method), c, "rejected", Throw(SendError(S)))
authenticateWithAPI(S, c) ==
    Login(S, c, "auth.login_with_api_key", "authenticateWithAPI")
tryAlternativeAuth(S, c) == Login(S, c, "auth.login", "tryAlternativeAuth")

\* disconnect(): if (this.ws) this.ws.close()
disconnect(S) ==
    IF S.ws # 0 THEN [S EXCEPT !.chan[S.ws].state = "closed"] ELSE S

\* ------------------------------------------------------------------ server
\* the jobs the server lists: each id at most once, in increasing order
RECURSIVE ListFrom(_, _)
ListFrom(t, i) ==
    IF i > MaxJobId THEN <<>>
    ELSE (IF t[i] = "absent" THEN <<>> ELSE << [id |-> i, state |-> t[i]] >>)
         \o ListFrom(t, i + 1)
JobLists == {ListFrom(t, 1) : t \in [JobIds -> JobStates \cup {"absent"}]}
\* core.get_jobs with the filter [['id', '=', jobId]] (arg = <<jobId>>) or
\* with no filter (arg = <<>>)
Filtered(jobs, arg) ==
    IF arg = <<>> THEN jobs ELSE SelectSeq(jobs, LAMBDA j : j.id = arg[1])
Errors(i, texts) == {Error(i, sh, t) : sh \in Shapes, t \in texts}

\* what the server may answer to request r
Replies(r) ==
    CASE r.method = "connect" -> {Connected, Failed}
      [] r.method \in AuthMethods ->
            {Result(r.id, Bool(TRUE))} \cup Errors(r.id, AuthReasons)
      [] r.method = "app.get_instance" ->
            IF appExists
            THEN {Result(r.id, App(st)) : st \in AppStates}
                 \cup Errors(r.id, {"permission", "other"})
            ELSE Errors(r.id, {"not found"})
      [] r.method \in {"app.stop", "app.start"} ->
            IF appExists
            THEN {Result(r.id, Num(j)) : j \in JobIds} \cup Errors(r.id, ServerTexts)
            ELSE Errors(r.id, {"not found"})
      [] r.method = "core.get_jobs" ->
            {Result(r.id, Arr(Filtered(js, r.arg))) : js \in JobLists}
            \cup Errors(r.id, {"other"})

\* messages that answer no request of the client: one without an id, one
\* with an id no pending call has
Strays == {Ping, Result(messageId + 1, Null)}

\* what may arrive next on channel c: <<the request it answers, the message>>
Incoming(c) ==
    UNION {{<<{r}, m>> : m \in Replies(r)} : r \in {o \in outstanding : o.ch = c}}
    \cup {<<{}, m>> : m \in Strays}

\* A message arrives on channel c: the server has answered reqs, the
\* one-shot listener, if any, is removed.  History: what the channel has
\* received by now (whether its first message was the 'connected'
\* confirmation, the 'connected' confirmation, an answer to the login
\* call with the call's id and without an error, an error for
\* auth.login_with_api_key), the answer to app.get_instance, and in lost the
\* id of a response that reached no listener of its call.
Arrived(S, c, reqs, m) ==
    LET l == S.chan[c].listener
        i == S.chan[c].lid
        heard == l \in {"authenticateWithAPI", "tryAlternativeAuth", "callMethod"}
                 /\ m.id = i
    IN [S EXCEPT
          !.outstanding = @ \ reqs,
          !.chan[c].listener = "none",
          !.chan[c].lid = 0,
          !.chan[c].first = IF @ # "none" THEN @
                            ELSE IF m.msg = "connected" THEN "connected"
                            ELSE "other",
          !.chan[c].connected = @ \/ (l = "authenticate" /\ m.msg = "connected"),
          !.chan[c].authOk = @ \/ (l \in {"authenticateWithAPI", "tryAlternativeAuth"}
                                    /\ m.id = i /\ ~m.hasError),
          !.chan[c].authErr = @ \/ (m.hasError /\ \E r \in reqs :
                                       r.method = "auth.login_with_api_key"),
          !.seen = IF \E r \in reqs : r.method = "app.get_instance"
                   THEN [@ EXCEPT !.id = m.id,
                                  !.status = IF m.hasError THEN Null
                                             ELSE Str(m.result.state)]
                   ELSE IF m.hasError
                           /\ \E r \in reqs : r.method \in {"app.stop", "app.start"}
                   THEN [@ EXCEPT !.opId = m.id, !.opError = m.error.text]
                   ELSE @,
          !.lost = IF ~heard /\ \E r \in reqs : r.id # 0
                   THEN (CHOOSE r \in reqs : r.id # 0).id ELSE @]

\* --------------------------------------------------------------- listeners
\* authenticate(): the listener for the answer to the connect message
authenticate_onMessageLenient(S, c, m) == authenticateWithAPI(S, c)
authenticate_onMessage(S, c, m) ==
    IF m.msg = "connected"
    THEN authenticateWithAPI(S, c)
    ELSE SettleConnect(S, c, "rejected", Throw(MsgConnectionFailed))

\* the message of the error the login listeners reject with
AuthError(error) ==
    LET errorReason == IF error.shape = "reason" THEN error.text ELSE "Unknown error" IN
    IF variant = "legacy" THEN AuthenticationFailed(ErrorField(error, "reason"))
    ELSE IF Includes(errorReason, "invalid") \/ Includes(errorReason, "wrong")
         THEN "Authentication failed: Invalid API key"
    ELSE IF Includes(errorReason, "expired") THEN "Authentication failed: API key has expired"
    ELSE AuthenticationFailed(errorReason)

\* what authenticateWithAPI does with an error response: the current client
\* rejects, the legacy client tries auth.login
RetriesAuth == variant = "legacy"

\* history: the call with id i was settled by message m
SettledBy(S, i, m) == [S EXCEPT !.settledBy = <<i, m.id>>]

\* authenticateWithAPI(): the listener for the answer to the login call
authenticateWithAPI_onMessage(S, c, i, m) ==
    IF ~IdMatches(m, i) THEN S
    ELSE IF m.hasError /\ RetriesAuth THEN tryAlternativeAuth(SettledBy(S, i, m), c)
    ELSE IF m.hasError
         THEN SettleConnect(SettledBy(S, i, m), c, "rejected", Throw(AuthError(m.error)))
    ELSE SettleConnect(SettledBy(S, i, m), c, "resolved", Value(Null))

\* tryAlternativeAuth(): the listener for the answer to auth.login
tryAlternativeAuth_onMessage(S, c, i, m) ==
    IF ~IdMatches(m, i) THEN S
    ELSE IF m.hasError
         THEN SettleConnect(SettledBy(S, i, m), c, "rejected", Throw(AuthError(m.error)))
    ELSE SettleConnect(SettledBy(S, i, m), c, "resolved", Value(Null))

\* the completion callMethod's promise gets from a response with its id
Completion(m) ==
    IF m.hasError THEN Throw(MethodCallFailed(ErrorField(m.error, "message")))
    ELSE Value(m.result)

\* callMethod's listener: the next message settles the call if it bears the
\* call's id; the listener is gone either way
callMethod_onMessage(S, c, i, m) ==
    IF IdMatches(m, i)
    THEN [SettledBy(S, i, m) EXCEPT !.ret = Completion(m), !.pending = @ \ {i}]
    ELSE S

\* ws.on('message'): the one-shot listener registered on channel c, if any,
\* hears m
OnMessage(S, c, reqs, m) ==
    LET l == S.chan[c].listener
        i == S.chan[c].lid
        T == Arrived(S, c, reqs, m)
    IN CASE l = "authenticate" -> authenticate_onMessage(T, c, m)
         [] l = "authenticateWithAPI" -> authenticateWithAPI_onMessage(T, c, i, m)
         [] l = "tryAlternativeAuth" -> tryAlternativeAuth_onMessage(T, c, i, m)
         [] l = "callMethod" -> callMethod_onMessage(T, c, i, m)
         [] OTHER -> T

\* ws.on('open'): this.authenticate().then(resolve).catch(reject)
OnOpen(S, c) == authenticate([S EXCEPT !.chan[c].state = "open"], c)
\* ws.on('error'): reject(error); the socket is closed
OnError(S, c) ==
    SettleConnect([S EXCEPT !.chan[c].state = "closed"], c, "rejected",
                  Throw("socket error"))
\* ws.on('close'): only logs
OnClose(S, c) == [S EXCEPT !.chan[c].state = "closed"]

\* ------------------------------------------------------------ getAppStatus
\* the check of appName that opens every operation of the current client
NameError(name) ==
    IF variant = "legacy" THEN ""
    ELSE IF IsFalsyName(name) THEN MsgNameRequired
    ELSE IF IsBlank(name) THEN MsgNameEmpty
    ELSE ""

getAppStatus(S) ==
    IF NameError(input.appName) # ""
    THEN Return(S, Throw(NameError(input.appName)))
    ELSE callMethod(Goto(S, "await_get_instance"), "app.get_instance", <<>>)

\* return app.state; catch (error) { ...log...; return null }
AppStatusRethrown(r) == IF r.kind = "value" THEN Value(Str(r.val.state)) ELSE r
AppStatus(r) == IF r.kind = "value" THEN Value(Str(r.val.state)) ELSE Value(Null)

getAppStatus_return(S) == Return(S, AppStatus(S.ret))

\* -------------------------------------------------------------- waitForJob
\* the argument checks of the current client
WaitArgError(j, t) ==
    IF variant = "legacy" THEN ""
    ELSE IF j <= 0 THEN "Job ID must be a positive number"
    ELSE IF t # 0 /\ t <= 0 THEN "Timeout must be a positive number"
    ELSE ""

\* waitForJob returns or throws: its locals are gone; history keeps the
\* result and whether the deadline had passed
WaitReturn(S, completion, result) ==
    [Return(S, completion)
        EXCEPT !.wj.active = FALSE, !.wj.result = result,
               !.wj.expired = ~(S.elapsed < S.timeout),
               !.jobId = 0, !.timeout = 0, !.elapsed = 0]

waitForJob(S) ==
    IF WaitArgError(S.jobId, S.timeout) # ""
    THEN WaitReturn([S EXCEPT !.wj = NoWait],
                    Throw(WaitArgError(S.jobId, S.timeout)), "throw")
    ELSE [Goto(S, "while") EXCEPT !.ret = NoRet, !.elapsed = 0,
                                  !.wj = [NoWait EXCEPT !.active = TRUE,
                                                        !.from = S.messageId]]

\* while (Date.now() - startTime < timeout)
TimeLeftInclusive(S) == S.elapsed <= S.timeout
TimeLeft(S) == S.elapsed < S.timeout

\* history: the poll about to be sent comes no sooner than PollInterval
\* after the poll before it
Spaced(S) == S.wj.polls = 0 \/ S.elapsed >= S.wj.polledAt + PollInterval

waitForJob_while(S) ==
    IF TimeLeft(S)
    THEN callMethod([Goto(S, "await_get_jobs")
                        EXCEPT !.wj.polls = @ + 1,
                               !.wj.obs = "none",
                               !.wj.polledAt = S.elapsed,
                               !.wj.spaced = @ /\ Spaced(S)],
                    "core.get_jobs", IF variant = "legacy" THEN <<S.jobId>> ELSE <<>>)
    ELSE WaitReturn([S EXCEPT !.wj.obs = "none"], Value(Bool(FALSE)), "false")

\* the state of job i in a job list, "absent" when it is not listed
StateOf(jobs, i) ==
    LET hits == SelectSeq(jobs, LAMBDA j : j.id = i) IN
    IF hits = <<>> THEN "absent" ELSE hits[1].state

\* allJobs.find(job => job.id === jobId) in the current client; jobs[0] of
\* the list the server filtered in the legacy client
FirstJob(jobs) == IF jobs = <<>> THEN "absent" ELSE jobs[1].state
JobStatus(jobs, i) ==
    IF variant = "legacy" THEN FirstJob(jobs) ELSE StateOf(jobs, i)

\* what one poll decides: "true" / "false" end the wait, "sleep" goes on.
\* A poll that threw is caught: the current client sleeps and polls again,
\* the legacy client returns false.
PollVerdictStrict(r, i) ==
    IF r.kind = "throw" THEN (IF variant = "legacy" THEN "false" ELSE "sleep")
    ELSE IF JobStatus(r.val.jobs, i) = "SUCCESS" THEN "true"
    ELSE "false"
PollVerdict(r, i) ==
    IF r.kind = "throw" THEN (IF variant = "legacy" THEN "false" ELSE "sleep")
    ELSE IF JobStatus(r.val.jobs, i) = "SUCCESS" THEN "true"
    ELSE IF JobStatus(r.val.jobs, i) = "FAILED" THEN "false"
    ELSE "sleep"

\* history: what the poll that just completed showed of job i
Observed(r, i) == IF r.kind = "throw" THEN "error" ELSE StateOf(r.val.jobs, i)

waitForJob_polled(S) ==
    LET verdict == PollVerdict(S.ret, S.jobId)
        obs == Observed(S.ret, S.jobId)
        noted == [S.wj EXCEPT !.obs = obs,
                             !.sawSuccess = @ \/ obs = "SUCCESS",
                             !.sawFailed = @ \/ obs = "FAILED",
                             !.sawError = @ \/ obs = "error",
                             !.lateSuccess = @ \/ (obs = "SUCCESS"
                                                   /\ S.elapsed >= S.timeout)]
    IN IF verdict = "sleep"
       THEN [Goto(S, "sleep") EXCEPT !.ret = NoRet, !.wj = noted]
       ELSE WaitReturn([S EXCEPT !.wj = noted], Value(Bool(verdict = "true")), verdict)

\* setTimeout(resolve, 2000) has fired
waitForJob_woken(S) == Goto(S, "while")
waitForJob_slept(S) == [Goto(S, "while") EXCEPT !.elapsed = @ + PollInterval]

\* ------------------------------------------------------ stopApp / startApp
Method(fn) == IF fn = "stopApp" THEN "app.stop" ELSE "app.start"
Already(fn) == IF fn = "stopApp" THEN "already stopped" ELSE "already running"
OperationFailed(fn) ==
    IF fn = "stopApp"
    THEN "Stop operation failed or timed out. The app may still be running."
    ELSE "Start operation failed or timed out. The app may not have started properly."

\* catch (error) of stopApp / startApp: the current client classifies the
\* message, the legacy client rethrows
Caught(fn, msg) ==
    IF variant = "legacy" THEN Throw(msg)
    ELSE IF Includes(msg, "not found") THEN Throw(MsgNotFound)
    ELSE IF Includes(msg, "permission") THEN Throw(MsgPermission)
    ELSE IF Includes(msg, Already(fn)) THEN Value(Null)
    ELSE Throw(msg)

\* whether stopApp / startApp ask for the status before the remote call
ChecksExistence == variant = "current"

\* if (appStatus === null) throw new Error(`App '${appName}' not found...`)
IsUnknown(status) == status = Null

operate(S, fn) ==
    IF NameError(input.appName) # "" THEN Return(S, Throw(NameError(input.appName)))
    ELSE IF ChecksExistence THEN Await(S, "after_exists", "getAppStatus")
    ELSE callMethod(Goto(S, "await_op"), Method(fn), <<>>)

\* const appStatus = await this.getAppStatus(appName) is through
operate_exists(S, fn) ==
    IF S.ret.kind = "throw" THEN Return(S, S.ret)
    ELSE IF IsUnknown(S.ret.val) THEN Return(S, Throw(MsgNotFound))
    ELSE callMethod(Goto(S, "await_op"), Method(fn), <<>>)

\* stopApp / startApp returns or throws
OperateReturn(S, completion) == [Return(S, completion) EXCEPT !.opJobId = Null]

\* the remote call settled: wait for its job (current client), wait ten
\* seconds (legacy client), or handle the error
operate_called(S, fn) ==
    IF S.ret.kind = "throw" THEN OperateReturn(S, Caught(fn, S.ret.val.s))
    ELSE IF variant = "legacy"
         THEN [Goto(S, "sleep10") EXCEPT !.opJobId = S.ret.val, !.ret = NoRet]
    ELSE [Await(S, "after_wait", "waitForJob")
             EXCEPT !.opJobId = S.ret.val, !.jobId = S.ret.val.n,
                    !.timeout = DefaultTimeout]

\* const success = await this.waitForJob(jobId); if (!success) throw ...
operate_waited(S, fn) ==
    OperateReturn(S, IF S.ret.kind = "throw" THEN Caught(fn, S.ret.val.s)
                     ELSE IF S.ret.val = Bool(TRUE) THEN Value(S.opJobId)
                     ELSE Caught(fn, OperationFailed(fn)))

\* legacy: setTimeout(resolve, 10000) has fired; return jobId
operate_slept(S, fn) == OperateReturn(S, Value(S.opJobId))

\* -------------------------------------------------------------- restartApp
restartApp(S) ==
    IF NameError(input.appName) # ""
    THEN [Return(S, Throw(NameError(input.appName))) EXCEPT !.rs = NoRestart]
    ELSE [Await(S, "after_initial", "getAppStatus")
             EXCEPT !.rs = [NoRestart EXCEPT !.phase = "initial"]]

\* restartApp returns or throws; history keeps the completion
RestartReturn(S, completion) ==
    [Return(S, completion) EXCEPT !.rs.result = completion, !.rs.answer = S.seen]

\* initialStatus = await this.getAppStatus(appName)
restartApp_initial(S) ==
    IF S.ret.kind = "throw" THEN RestartReturn(S, S.ret)
    ELSE IF variant = "current" /\ IsUnknown(S.ret.val)
         THEN RestartReturn(S, Throw(MsgNotFound))
    ELSE [Await(S, "after_stop", "stopApp") EXCEPT !.rs.phase = "stop"]

\* history: how the stop step ended: its job was seen in state SUCCESS, the
\* server said the application was stopped already, or neither
StopEnded(S) ==
    IF S.wj.result = "true" THEN "success"
    ELSE IF S.ret.val = Null THEN "already"
    ELSE "unobserved"

\* await this.stopApp(appName) is through
restartApp_stopped(S) ==
    IF S.ret.kind = "throw" THEN RestartReturn(S, S.ret)
    ELSE IF variant = "legacy"
         THEN [Goto(S, "sleep5_stop") EXCEPT !.ret = NoRet, !.rs.phase = "stopped",
                                             !.rs.stop = StopEnded(S)]
    ELSE [Await(S, "after_stopped", "getAppStatus")
             EXCEPT !.rs.phase = "stopped", !.rs.stop = StopEnded(S)]

\* legacy: setTimeout(resolve, 5000) after the stop has fired
restartApp_slept_stop(S) == Await(S, "after_stopped", "getAppStatus")

\* stoppedStatus = await this.getAppStatus(appName): logged, then startApp
restartApp_recheckedStrict(S) ==
    IF S.ret.kind = "throw" \/ S.ret.val # Str("STOPPED")
    THEN RestartReturn([S EXCEPT !.rs.recheck = S.ret], Throw("App is still running"))
    ELSE [Await(S, "after_start", "startApp")
             EXCEPT !.rs.phase = "start", !.rs.recheck = S.ret]
restartApp_rechecked(S) ==
    IF S.ret.kind = "throw" THEN RestartReturn(S, S.ret)
    ELSE [Await(S, "after_start", "startApp")
             EXCEPT !.rs.phase = "start", !.rs.recheck = S.ret]

\* await this.startApp(appName) threw: the error leaves restartApp, which
\* sends nothing more
StartFailedCompensating(S) == Await(S, "after_final", "stopApp")
StartFailed(S) == RestartReturn(S, S.ret)

\* await this.startApp(appName) is through
restartApp_started(S) ==
    IF S.ret.kind = "throw"
    THEN StartFailed([S EXCEPT !.rs.phase = "start_failed", !.rs.error = S.ret,
                               !.rs.mark = S.messageId])
    ELSE IF variant = "legacy"
         THEN [Goto(S, "sleep5_start") EXCEPT !.ret = NoRet, !.rs.phase = "started",
                                              !.rs.mark = S.messageId]
    ELSE [Await(S, "after_final", "getAppStatus")
             EXCEPT !.rs.phase = "started", !.rs.mark = S.messageId]

\* legacy: setTimeout(resolve, 5000) after the start has fired
restartApp_slept_start(S) == Await(S, "after_final", "getAppStatus")

\* finalStatus = await this.getAppStatus(appName); return finalStatus
restartApp_return(S) == RestartReturn(S, S.ret)

\* ------------------------------------------------------------------ run
ValidActions == {"status", "stop", "start", "restart"}
\* validateInputs of the CI action: address, API key, app name, action
validateInputs_run(truenasUrl, apiKey, appName, action) ==
    IF ~IsHttpUrl(truenasUrl) THEN "truenas-url must be a valid HTTP/HTTPS URL"
    ELSE IF apiKey = <<>> THEN "api-key is required and must be a string"
    ELSE IF Len(apiKey) < MinKeyLength THEN "api-key appears to be too short"
    ELSE IF IsFalsyName(appName) THEN "app-name is required and must be a string"
    ELSE IF IsBlank(appName) THEN "app-name cannot be empty"
    ELSE IF action = "" THEN "action is required and must be a string"
    ELSE IF toLowerCase(action) \notin ValidActions THEN "Invalid action"
    ELSE ""
\* validateInputs of the command line tool: command, then app name
validateInputs_cli(command, appName) ==
    IF command = "" THEN "Command is required and must be a string"
    ELSE IF toLowerCase(command) \notin ValidActions THEN "Invalid command"
    ELSE IF IsFalsyName(appName) THEN MsgNameRequired
    ELSE IF IsBlank(appName) THEN MsgNameEmpty
    ELSE ""

\* switch (action): the client method of each case, "default" otherwise
Switch(action) ==
    CASE action = "status" -> "getAppStatus"
      [] action = "stop" -> "stopApp"
      [] action = "start" -> "startApp"
      [] action = "restart" -> "restartApp"
      [] OTHER -> "default"

\* core.setFailed(...)
SetFailed(o) == [o EXCEPT !.failed = TRUE, !.exit = "failure"]
\* result || 'unknown'
OrUnknownRaw(v) == v.s
OrUnknown(v) == IF v = Null \/ v.s \in {"", "undefined"} THEN "unknown" ELSE v.s
\* finally { client.disconnect() }
Finally(S) == [disconnect(S) EXCEPT !.out.disconnects = @ + 1]
\* the wrapper is through
Done(S) == [Goto(S, "done") EXCEPT !.ret = NoRet]

\* await client.connect() threw: control leaves the try block
ConnectFailedIgnored(r) == FALSE
ConnectFailed(r) == r.kind = "throw"

\* core.getInput(name, { required: true }) throws when the input is not
\* supplied
InputMissing == input.appName = "" \/ input.apiKey = <<>>

\* run(): read the inputs, validate them (current variant only), create the
\* client, connect
run(S) ==
    IF \/ InputMissing
       \/ /\ variant = "current"
          /\ validateInputs_run(input.url, input.apiKey, trim(input.appName),
                                input.action) # ""
       \/ ConstructorError(input.url, input.apiKey) # ""
    THEN Done([S EXCEPT !.out = SetFailed(@)])
    ELSE Await(S, "after_connect", "connect")

\* await client.connect() is through: switch (action)
run_connectedNoCleanup(S) ==
    IF ConnectFailed(S.ret) \/ Switch(input.action) = "default"
    THEN Done([S EXCEPT !.out = SetFailed(@)])
    ELSE Await(S, "after_op", Switch(input.action))
run_connected(S) ==
    IF ConnectFailed(S.ret) \/ Switch(input.action) = "default"
    THEN Done([Finally(S) EXCEPT !.out = SetFailed(@)])
    ELSE Await(S, "after_op", Switch(input.action))

\* the operation is through: disconnect, then the outputs or setFailed
run_finished(S) ==
    IF S.ret.kind = "throw"
    THEN Done([Finally(S) EXCEPT !.out = SetFailed(@)])
    ELSE Done([Finally(S) EXCEPT
                  !.out.appStatus = IF input.action \in {"status", "restart"}
                                    THEN OrUnknown(S.ret.val) ELSE "unknown",
                  !.out.success = "true",
                  !.out.exit = "success"])

\* ------------------------------------------------------- commandLineTest
\* process.exit(1)
Exit1(S) == Done([S EXCEPT !.out.exit = "failure"])

\* if (!apiKey || !url) at the top of the script
EnvMissing == input.apiKey = <<>>

\* commandLineTest(): parse and validate the arguments, create the client,
\* connect
commandLineTest(S) ==
    IF EnvMissing \/ input.action = "" \/ IsFalsyName(input.appName)
       \/ validateInputs_cli(input.action, input.appName) # ""
       \/ ConstructorError(input.url, input.apiKey) # ""
    THEN Exit1(S)
    ELSE Await(S, "after_connect", "connect")

\* await client.connect() is through: switch (command); the catch block and
\* the default case end the process with process.exit(1)
commandLineTest_connected(S) ==
    IF ConnectFailed(S.ret) \/ Switch(input.action) = "default" THEN Exit1(S)
    ELSE Await(S, "after_op", Switch(input.action))

\* the operation is through: process.exit(1) in the catch block, or the
\* finally block's disconnect
commandLineTest_finished(S) ==
    IF S.ret.kind = "throw" THEN Exit1(S)
    ELSE Done([Finally(S) EXCEPT !.out.exit = "success"])

\* -------------------------------------------------------------------- api
\* a program that calls the public methods of one client, one at a time
ApiMethods == {"connect", "getAppStatus", "stopApp", "startApp", "restartApp",
               "waitForJob"}

\* the awaited call has settled: the program sees its completion
api_returned(S) ==
    [Goto(S, "idle") EXCEPT !.ret = NoRet, !.last.ret = S.ret,
                            !.last.answer = S.seen, !.last.wait = S.wj.result]

\* ------------------------------------------------------------- the client
\* one step of the function on top of the stack
Step(S) ==
    LET fn == Top(S).fn
        pc == Top(S).pc
    IN CASE fn = "connect" -> connect(S)
         [] fn = "getAppStatus" ->
                IF pc = "start" THEN getAppStatus(S) ELSE getAppStatus_return(S)
         [] fn = "waitForJob" ->
               (CASE pc = "start" -> waitForJob(S)
                  [] pc = "while" -> waitForJob_while(S)
                  [] pc = "await_get_jobs" -> waitForJob_polled(S))
         [] fn \in {"stopApp", "startApp"} ->
               (CASE pc = "start" -> operate(S, fn)
                  [] pc = "after_exists" -> operate_exists(S, fn)
                  [] pc = "await_op" -> operate_called(S, fn)
                  [] pc = "after_wait" -> operate_waited(S, fn))
         [] fn = "restartApp" ->
               (CASE pc = "start" -> restartApp(S)
                  [] pc = "after_initial" -> restartApp_initial(S)
                  [] pc = "after_stop" -> restartApp_stopped(S)
                  [] pc = "after_stopped" -> restartApp_rechecked(S)
                  [] pc = "after_start" -> restartApp_started(S)
                  [] pc = "after_final" -> restartApp_return(S))
         [] fn = "run" ->
               (CASE pc = "start" -> run(S)
                  [] pc = "after_connect" -> run_connected(S)
                  [] pc = "after_op" -> run_finished(S))
         [] fn = "commandLineTest" ->
               (CASE pc = "start" -> commandLineTest(S)
                  [] pc = "after_connect" -> commandLineTest_connected(S)
                  [] pc = "after_op" -> commandLineTest_finished(S))
         [] fn = "api" -> api_returned(S)

\* JavaScript runs to completion: the client steps until every function on
\* the stack awaits something only an event can settle (T is S, evaluated
\* once)
RECURSIVE Run(_)
Run(S) ==
    CHOOSE R \in {IF Suspended(T) THEN T ELSE Run(Step(T)) : T \in {S}} : TRUE

\* history of a wait that is over and of an answer that arrived lasts
\* until the next event
Fresh(S) ==
    [S EXCEPT !.wj = IF @.active THEN @ ELSE NoWait, !.seen = NoSeen,
              !.rs.recheck = NoRet]
\* the event takes the client from the current state to the next
Event(S) == \E T \in {Run(S)} : Becomes(T)

\* ------------------------------------------------------------------ events
\* the program starts
run_start == At(cur, "run", "start") /\ Event(cur)
commandLineTest_start == At(cur, "commandLineTest", "start") /\ Event(cur)

\* the program calls a public method of the client and awaits it
api_call(fn, j, t) ==
    /\ At(cur, "api", "idle")
    /\ calls < MaxCalls
    /\ fn = "connect" => Len(chan) < MaxChannels
    /\ Event([Await(Fresh(cur), "after_call", fn)
                 EXCEPT !.calls = @ + 1,
                        !.last = [NoCall EXCEPT !.fn = fn],
                        !.rs = NoRestart,
                        !.jobId = IF fn = "waitForJob" THEN j ELSE @,
                        !.timeout = IF fn = "waitForJob" THEN t ELSE @])

\* the program calls disconnect(), unless the socket is closed already and
\* the call would change nothing
api_disconnect ==
    /\ At(cur, "api", "idle")
    /\ calls < MaxCalls
    /\ ws # 0 => chan[ws].state # "closed"
    /\ Event([disconnect(Fresh(cur))
                 EXCEPT !.calls = @ + 1,
                        !.last = [NoCall EXCEPT !.fn = "disconnect",
                                                !.ret = Value(Null)],
                        !.rs = NoRestart])

\* the socket of channel c opens, fails or is closed by the peer
ws_open(c) ==
    /\ Quiet
    /\ chan[c].state = "connecting"
    /\ Event(OnOpen(Fresh(cur), c))
ws_error(c) ==
    /\ Quiet
    /\ chan[c].state \in {"connecting", "open"}
    /\ Event(OnError(Fresh(cur), c))
ws_close(c) ==
    /\ Quiet
    /\ chan[c].state = "open"
    /\ Event(OnClose(Fresh(cur), c))

\* a message arrives on channel c, where the one-shot listener l is
\* registered ("none": no listener)
ws_message(l, c, reqs, m) ==
    /\ Quiet
    /\ chan[c].state = "open"
    /\ chan[c].listener = l
    /\ Event(OnMessage(Fresh(cur), c, reqs, m))

\* a timer fires
waitForJob_sleep ==
    /\ Quiet
    /\ At(cur, "waitForJob", "sleep")
    /\ Event(waitForJob_slept(Fresh(cur)))
stopApp_sleep ==
    /\ Quiet
    /\ At(cur, "stopApp", "sleep10")
    /\ Event(operate_slept(Fresh(cur), "stopApp"))
startApp_sleep ==
    /\ Quiet
    /\ At(cur, "startApp", "sleep10")
    /\ Event(operate_slept(Fresh(cur), "startApp"))
restartApp_sleep_stop ==
    /\ Quiet
    /\ At(cur, "restartApp", "sleep5_stop")
    /\ Event(restartApp_slept_stop(Fresh(cur)))
restartApp_sleep_start ==
    /\ Quiet
    /\ At(cur, "restartApp", "sleep5_start")
    /\ Event(restartApp_slept_start(Fresh(cur)))

\* The clock is read only by the loop test of waitForJob, so of the time
\* that passes while the response to a poll is awaited only this matters:
\* the response is quick (no step), or it is so late that the deadline has
\* passed.
Overdue ==
    /\ Quiet
    /\ At(cur, "waitForJob", "await_get_jobs")
    /\ elapsed < timeout
    /\ Event([cur EXCEPT !.elapsed = timeout])

\* ------------------------------------------------------------------- next
Channels == DOMAIN chan

Next ==
    \/ run_start
    \/ commandLineTest_start
    \/ \E fn \in ApiMethods \ {"waitForJob"} : api_call(fn, 0, 0)
    \/ \E j \in {0} \cup JobIds, t \in {0, ShortTimeout, DefaultTimeout} : api_call("waitForJob", j, t)
    \/ api_disconnect
    \/ \E c \in Channels : ws_open(c)
    \/ \E c \in Channels : ws_error(c)
    \/ \E c \in Channels : ws_close(c)
    \/ \E c \in Channels : \E d \in Incoming(c) : ws_message("authenticate", c, d[1], d[2])
    \/ \E c \in Channels : \E d \in Incoming(c) : ws_message("authenticateWithAPI", c, d[1], d[2])
    \/ \E c \in Channels : \E d \in Incoming(c) : ws_message("tryAlternativeAuth", c, d[1], d[2])
    \/ \E c \in Channels : \E d \in Incoming(c) : ws_message("callMethod", c, d[1], d[2])
    \/ \E c \in Channels : \E d \in Incoming(c) : ws_message("none", c, d[1], d[2])
    \/ waitForJob_sleep
    \/ Overdue
    \/ stopApp_sleep
    \/ startApp_sleep
    \/ restartApp_sleep_stop
    \/ restartApp_sleep_start

Spec == Init /\ [][Next]_vars

\* ================================================================== claims
\* the correlated calls the client issued, and those that went out
Issued == SelectSeq(log, LAMBDA e : e.id # 0)
Sent == SelectSeq(log, LAMBDA e : e.id # 0 /\ e.ch # 0)
OperationalSent(c) == {i \in DOMAIN log : log[i].ch = c /\ log[i].method \in Operational}
Live == {c \in DOMAIN chan : chan[c].state = "open"}

\* C1: waitForJob returns true exactly when a poll saw the job in state
\* SUCCESS before the deadline, and returns false only when a poll saw
\* FAILED or the deadline has passed: a poll that failed with an error does
\* not end the wait.
C1_AsStated ==
    wj.result \in {"true", "false"} =>
        /\ (wj.result = "true") <=> (wj.sawSuccess /\ ~wj.lateSuccess)
        /\ (wj.result = "false") => (wj.sawFailed \/ wj.expired)

\* C2: a message with another id or with no id that arrives before the
\* response is not taken as the response, and the response that follows
\* still settles the call: no response to a call of callMethod goes unheard.
C2_AsStated ==
    \A i \in DOMAIN log :
        (lost # 0 /\ log[i].id = lost) => log[i].method \notin Operational

\* C3: on a channel where auth.login_with_api_key was answered with an
\* error, connect() does not resolve and no operational call is ever sent.
C3_AsStated ==
    \A c \in DOMAIN chan :
        chan[c].authErr => chan[c].connect # "resolved" /\ OperationalSent(c) = {}

\* C4: for an application the server does not know, stopApp and startApp
\* never send app.stop or app.start.
C4_AsStated ==
    ~appExists =>
        \A i \in DOMAIN log :
            log[i].ch # 0 => log[i].method \notin {"app.stop", "app.start"}

\* C5: restartApp returns the status the server gave in answer to the query
\* made after startApp completed; when stopApp succeeded and startApp threw,
\* restartApp throws that error at once and sends no app.stop or app.start
\* after it.
C5_Restart ==
    /\ (rs.phase = "started" /\ rs.result.kind = "value" /\ rs.answer.id # 0) =>
          /\ rs.answer.id > rs.mark
          /\ rs.result.val = rs.answer.status
    /\ rs.phase = "start_failed" =>
          /\ rs.result.kind = "throw"
          /\ rs.result = rs.error
          /\ \A i \in DOMAIN log :
                log[i].id > rs.mark => log[i].method \notin {"app.stop", "app.start"}
C5_StartFailedAfterStop == rs.phase = "start_failed" /\ rs.result.kind = "throw"

\* C6 as stated: the N-th correlated call sent carries message id N.
C6_AsStated == LET sent == Sent IN \A i \in DOMAIN sent : sent[i].id = i
\* C6: the N-th correlated call a client issues, sent or not, is given
\* message id N, and the ids of the calls sent are strictly increasing, so
\* unique and never reused.
C6_Ids ==
    LET issued == Issued
        sent == Sent
    IN /\ \A i \in DOMAIN issued : issued[i].id = i
       /\ \A i \in 1 .. Len(sent) - 1 : sent[i].id < sent[i + 1].id
C6_SentAfterSkippedId == LET sent == Sent IN \E i \in DOMAIN sent : sent[i].id > i

\* C7: a correlated call is settled only by a message that bears the
\* call's own id.
C7_SettledByOwnId == settledBy[1] = settledBy[2]
C7_CallSettled == settledBy[1] >= 2

\* C8: in a run of the command line tool or of the CI action, an
\* operational call goes out only on a channel that has received the
\* 'connected' confirmation and an answer to an authentication call with
\* that call's id and no error.
C8_AuthBeforeOperation ==
    caller # "api" =>
        \A c \in DOMAIN chan :
            OperationalSent(c) # {} => chan[c].connected /\ chan[c].authOk
C8_OperationSent == caller # "api" /\ \E c \in DOMAIN chan : OperationalSent(c) # {}

\* C9: at most one channel of the client is open at a time.
C9_AsStated == Cardinality(Live) <= 1

\* C10: when the server answers app.get_instance, getAppStatus returns the
\* state of the descriptor it sent, or null if it sent an error; getAppStatus
\* throws only for an application name it rejects before calling the server.
C10_GetAppStatus ==
    (last.fn = "getAppStatus" /\ last.ret.kind # "none") =>
        /\ last.answer.id # 0 => last.ret = Value(last.answer.status)
        /\ last.ret.kind = "throw" => NameError(input.appName) # ""
C10_ServerErrorGivesNull ==
    /\ last.fn = "getAppStatus"
    /\ last.answer.id # 0
    /\ last.answer.status = Null
    /\ last.ret = Value(Null)

\* C11: when the server answers app.stop with an 'already stopped' error
\* (app.start with 'already running'), stopApp (startApp) returns null
\* without throwing and sends no core.get_jobs after that answer.
C11_AsStated ==
    (/\ last.fn \in {"stopApp", "startApp"}
     /\ last.ret.kind # "none"
     /\ last.answer.opError = Already(last.fn)) =>
        /\ last.ret = Value(Null)
        /\ \A i \in DOMAIN log :
              log[i].id > last.answer.opId => log[i].method # "core.get_jobs"

\* the core.get_jobs polls the wait in progress, or just over, has issued
Polls == {i \in DOMAIN log : log[i].method = "core.get_jobs" /\ log[i].id > wj.from}

\* C12: the poll that first shows the job in state SUCCESS ends the wait
\* with true, so a wait that first sees SUCCESS on its k-th poll has issued
\* exactly k core.get_jobs calls; and each poll after the first is sent at
\* least 2000 ms after the poll before it, whether that poll was answered
\* with a job list or failed.
C12_Polls ==
    /\ wj.sawSuccess => ~wj.active /\ wj.result = "true"
    /\ (wj.active \/ wj.result \in {"true", "false"}) => Cardinality(Polls) = wj.polls
    /\ wj.spaced
C12_ThirdPollAfterError ==
    /\ wj.result = "true"
    /\ wj.sawError
    /\ wj.polls = 3
    /\ Cardinality(Polls) = 3
    /\ wj.polledAt = 2 * PollInterval

\* C13: at most one call of callMethod is unsettled at any time: getAppStatus,
\* stopApp, startApp, restartApp and waitForJob send a request only when
\* every request sent before it has been resolved or rejected.
C13_OneOutstanding == Cardinality(pending) <= 1
C13_SecondCallOutstanding ==
    \E i \in pending : \E k \in DOMAIN log :
        /\ log[k].method \in Operational
        /\ log[k].ch # 0
        /\ log[k].id < i
        /\ log[k].id \notin pending

\* the CI action has ended
RunEnded == caller = "run" /\ At(cur, "run", "done")

\* C14: every run of the CI action sets the output 'success', to 'false'
\* when the run failed and to 'true' when it did not.
C14_AsStated ==
    RunEnded => out.success = (IF out.failed THEN "false" ELSE "true")

\* C15: after a successful run of the CI action the output 'app-status' is
\* a status of the application that the server reported, whichever of the
\* four actions was requested.
C15_AsStated ==
    (RunEnded /\ out.success = "true") => out.appStatus \in AppStates

\* the configuration is in error: the address is no http / https URL, the
\* credential is empty or shorter than 10 characters, or the application
\* name is empty or blank
ConfigInvalid ==
    \/ ~IsHttpUrl(input.url)
    \/ Len(input.apiKey) < MinKeyLength
    \/ IsBlank(input.appName)

\* C16: with a configuration in error, the CI action and the command line
\* tool open no channel and send no message.
C16_AsStated ==
    (caller # "api" /\ ConfigInvalid) => chan = <<>> /\ log = <<>>

\* C17: an action or command string that selects none of the four
\* operations is rejected before the channel is opened: the CI action and
\* the command line tool never connect and then reject the string as unknown.
C17_AsStated ==
    (caller # "api" /\ Switch(input.action) = "default") => chan = <<>>

\* C18: on a channel whose first message is not the 'connected'
\* confirmation, connect() is rejected, with 'WebSocket connection failed',
\* and no authentication call is ever sent.
C18_FirstMessage ==
    \A c \in DOMAIN chan :
        chan[c].first = "other" =>
            /\ chan[c].connect = "rejected"
            /\ \A i \in DOMAIN log :
                  log[i].ch = c => log[i].method \notin AuthMethods
            /\ (caller = "api" /\ last.fn = "connect" /\ ws = c) =>
                  last.ret = Throw(MsgConnectionFailed)
C18_RejectedByFirstMessage ==
    \E c \in DOMAIN chan :
        /\ chan[c].first = "other"
        /\ chan[c].connect = "rejected"
        /\ caller = "api" /\ last.fn = "connect" /\ ws = c
        /\ last.ret = Throw(MsgConnectionFailed)

\* The timers the client sets do fire; when the server answers, and whether
\* it answers at all, is not in the client's hands.
Timers ==
    \/ waitForJob_sleep
    \/ stopApp_sleep
    \/ startApp_sleep
    \/ restartApp_sleep_stop
    \/ restartApp_sleep_start
FairSpec == Spec /\ WF_vars(Timers)

\* C19: connect() does not stay pending for ever; on a channel that has
\* opened, connect() is eventually resolved or rejected.
C19_AsStated ==
    \A c \in 1 .. MaxChannels :
        (c \in DOMAIN chan /\ chan[c].state = "open")
            ~> (c \in DOMAIN chan /\ chan[c].connect # "pending")

\* the authentication calls sent on channel c
AuthSent(c) == {i \in DOMAIN log : log[i].ch = c /\ log[i].method \in AuthMethods}

\* C20: authentication is attempted once per connect(): on no channel is a
\* second authentication call sent, and after an error response to
\* auth.login_with_api_key connect() does not resolve.
C20_AsStated ==
    \A c \in DOMAIN chan :
        /\ Cardinality(AuthSent(c)) <= 1
        /\ chan[c].authErr => chan[c].connect # "resolved"

\* C21: once the timeout has elapsed, a wait in progress comes to an end,
\* also when the response to the poll it awaits is late or never arrives.
C21_AsStated == (wj.active /\ elapsed >= timeout) ~> ~wj.active

\* C22: a poll that finds the job absent, RUNNING or in another state that
\* is neither SUCCESS nor FAILED leaves waitForJob asleep for the next poll;
\* a wait that ends while time remains has just seen SUCCESS or FAILED, or,
\* in the legacy client, a poll that failed.
C22_Polling ==
    /\ wj.obs \in {"absent"} \cup (JobStates \ {"SUCCESS", "FAILED"}) =>
          wj.active /\ At(cur, "waitForJob", "sleep")
    /\ (wj.result \in {"true", "false"} /\ ~wj.expired) =>
          \/ wj.obs \in {"SUCCESS", "FAILED"}
          \/ wj.obs = "error" /\ variant = "legacy"
C22_PolledAgain ==
    /\ wj.active
    /\ At(cur, "waitForJob", "sleep")
    /\ wj.polls = 2
    /\ ~wj.sawError
    /\ wj.obs = "WAITING"

\* C23: stopApp / startApp return a job id only when waitForJob has reported
\* success for the job; when the wait has reported failure they throw the
\* 'operation failed or timed out' error.
C23_AsStated ==
    (last.fn \in {"stopApp", "startApp"} /\ last.ret.kind # "none") =>
        /\ (last.ret.kind = "value" /\ last.ret.val # Null) => last.wait = "true"
        /\ last.wait = "false" => last.ret = Throw(OperationFailed(last.fn))

\* C24: restartApp takes the start step, and so sends app.start, only when
\* the stop step has completed: the stop job was seen in state SUCCESS or
\* the server reported the application as stopped already.
C24_AsStated ==
    rs.phase \in {"start", "started", "start_failed"} =>
        rs.stop \in {"success", "already"}

\* C25: whatever the status query between stop and start yields, a state or
\* null, restartApp goes on to the start step: startApp is called, and
\* restartApp fails at this point only with an error startApp threw.
C25_Recheck ==
    rs.recheck.kind # "none" =>
        /\ rs.recheck.kind = "value"
        /\ rs.phase \in {"start", "start_failed"}
        /\ rs.phase = "start" => \E k \in DOMAIN stack : stack[k].fn = "startApp"
        /\ rs.phase = "start_failed" => rs.error.kind = "throw" /\ rs.result = rs.error
C25_StartAfterUnknown ==
    /\ rs.recheck = Value(Null)
    /\ rs.phase = "start"
    /\ \E k \in DOMAIN stack : stack[k].fn = "startApp"

\* C27: a call of waitForJob with a job id that is not positive, or with a
\* timeout that is not positive, throws a validation error and sends no
\* core.get_jobs poll.
C27_AsStated ==
    [][\A j \in {0} \cup JobIds, t \in {0, ShortTimeout, DefaultTimeout} :
          (api_call("waitForJob", j, t) /\ (j <= 0 \/ t <= 0)) =>
              /\ last'.ret.kind = "throw"
              /\ log' = log]_vars

\* C26: when the server answers app.stop or app.start with an error, in
\* either shape, the error that callMethod throws carries the server's
\* text: stopApp / startApp either return null for 'already stopped' /
\* 'already running' or throw an error that contains the server's text.
C26_AsStated ==
    (/\ last.fn \in {"stopApp", "startApp"}
     /\ last.ret.kind # "none"
     /\ last.answer.opError # "") =>
        \/ last.ret = Value(Null) /\ last.answer.opError = Already(last.fn)
        \/ last.ret.kind = "throw" /\ Includes(last.ret.val.s, last.answer.opError)

\* C28: when the channel that connect() succeeded on is closed, by the peer
\* or by an error, while a call awaits its response, that call does not
\* stay pending for ever: its promise is settled.
C28_AsStated ==
    (ws # 0 /\ chan[ws].connect = "resolved" /\ chan[ws].state = "closed" /\ pending # {})
        ~> (pending = {})

\* run() has created its client: the inputs are there, validateInputs (current
\* variant) and the constructor accepted them
ClientCreated ==
    /\ caller = "run"
    /\ ~InputMissing
    /\ variant = "current" =>
          validateInputs_run(input.url, input.apiKey, trim(input.appName),
                             input.action) = ""
    /\ ConstructorError(input.url, input.apiKey) = ""

\* C29: a run of the CI action that created a client and has come to its
\* end, connect() or the operation having succeeded or thrown, has called
\* disconnect() exactly once, in the finally block that follows the
\* operation: no channel is left open, disconnect() is not called before the
\* end of the run, and nothing is sent once the run has ended.
C29_Teardown ==
    /\ [](caller = "run" =>
            /\ (RunEnded /\ ClientCreated) =>
                  /\ out.disconnects = 1
                  /\ \A c \in DOMAIN chan : chan[c].state = "closed"
            /\ (~RunEnded \/ ~ClientCreated) => out.disconnects = 0)
    /\ [][RunEnded => log' = log]_vars
C29_TornDownAfterThrow ==
    /\ RunEnded
    /\ out.failed
    /\ out.disconnects = 1
    /\ \E i \in DOMAIN log : log[i].method \in Operational /\ log[i].ch # 0

\* C30: the CI action and the command line tool open the channel without
\* validating the server's certificate exactly when disable-ssl-verify is
\* 'true' (the flag --no-ssl-verify is given), with either client.
C30_AsStated ==
    caller # "api" =>
        \A c \in DOMAIN chan : (~chan[c].verify) <=> disableSSLVerify

\* C31: a run of the CI action with action 'status' whose status query the
\* server answered with an error, 'not found' included, does not fail: the
\* output app-status is 'unknown', success is 'true' and setFailed is not
\* called.
C31_StatusErrorTolerated ==
    (/\ RunEnded
     /\ input.action = "status"
     /\ seen.id # 0
     /\ seen.status = Null) =>
        /\ out.appStatus = "unknown"
        /\ out.success = "true"
        /\ ~out.failed
C31_NotFoundRun ==
    /\ RunEnded
    /\ input.action = "status"
    /\ ~appExists
    /\ seen.id # 0
    /\ seen.status = Null
    /\ out.appStatus = "unknown"
    /\ out.exit = "success"

\* A server that answers: it accepts the socket, and it answers each request
\* once, with a response to that request (for a correlated call, one bearing
\* the call's id), and sends nothing else.
ws_answer(c) ==
    \E r \in {o \in outstanding : o.ch = c} : \E m \in Replies(r) :
        ws_message(chan[c].listener, c, {r}, m)
AnsweredNext ==
    \/ run_start
    \/ commandLineTest_start
    \/ \E fn \in ApiMethods \ {"waitForJob"} : api_call(fn, 0, 0)
    \/ \E j \in {0} \cup JobIds, t \in {0, ShortTimeout, DefaultTimeout} : api_call("waitForJob", j, t)
    \/ api_disconnect
    \/ \E c \in Channels : ws_open(c)
    \/ \E c \in Channels : ws_answer(c)
    \/ Timers
    \/ Overdue
AnsweredSpec ==
    /\ Init /\ [][AnsweredNext]_vars
    /\ WF_vars(Timers)
    /\ WF_vars(\E c \in Channels : ws_open(c))
    /\ WF_vars(\E c \in Channels : ws_answer(c))

\* C32: against a server that answers, a call of connect, getAppStatus,
\* stopApp, startApp or restartApp comes to an end, by returning or by
\* throwing, and a waitForJob with timeout T has issued at most ceil(T / 2000)
\* polls.
C32_Answered ==
    /\ [](wj.active =>
             wj.polls <= (timeout + PollInterval - 1) \div PollInterval)
    /\ (last.fn \in ApiMethods \ {"waitForJob"} /\ last.ret.kind = "none")
          ~> (last.ret.kind # "none")
C32_LastPollThenTimeout ==
    /\ last.fn = "stopApp"
    /\ last.ret.kind = "throw"
    /\ wj.result = "false"
    /\ wj.expired
    /\ wj.polls = (DefaultTimeout + PollInterval - 1) \div PollInterval
====
